---- MODULE Spec2Model ----
(***************************************************************************)
(* Model of self_driving/ml_training/Trainer.py: the Trainer class.        *)
(*                                                                         *)
(* The Trainer is used by one caller at a time.  fit is modelled as a      *)
(* sequence of steps (session start, one step per loop iteration, return)  *)
(* because its intermediate states matter; get_valid_accuracy,             *)
(* predict_prob and predict are one action each.                           *)
(*                                                                         *)
(* What lives outside Trainer.py is an input of the model:                 *)
(*   - the values tf.global_variables_initializer() gives the parameters   *)
(*     (the Model's initializers): a choice among FreshParams;             *)
(*   - the value of the validation loss tensor: a choice among LossValues  *)
(*     (a float32: finite, +inf or NaN);                                   *)
(*   - the iterators of util.get_iterator: assumed never to run out.       *)
(***************************************************************************)
EXTENDS Integers, Sequences, FiniteSets, TLC

\* ---- bounds -------------------------------------------------------------
\* epochs * num_steps, the number of steps of one fit call, is at most
MaxTotalSteps == 3
MaxShowStep == 2
MaxLoss == 1
MaxCalls == 2
MaxBatch == 2
MaxIterations == 1
NumSeeds == 2
NumClasses == 3

\* ---- values -------------------------------------------------------------
\* A float is <<"fin", n>>, <<"inf", 0>> (float("inf")) or <<"nan", 0>>.
Inf == <<"inf", 0>>
NaN == <<"nan", 0>>
Fin(n) == <<"fin", n>>
LossValues == {Fin(n) : n \in 0..MaxLoss} \cup {Inf, NaN}

\* a <= b on floats, for comparison with a < b below.
LessThanLe(a, b) ==
    /\ a[1] # "nan" /\ b[1] # "nan"
    /\ \/ (a[1] = "fin" /\ b[1] = "inf")
       \/ (a[1] = "fin" /\ b[1] = "fin" /\ a[2] <= b[2])
       \/ (a[1] = "inf" /\ b[1] = "inf")

\* Python's a < b on floats: false when either side is NaN, nothing is
\* above +inf, every finite value is below it.
LessThan(a, b) ==
    /\ a[1] # "nan" /\ b[1] # "nan"
    /\ \/ (a[1] = "fin" /\ b[1] = "inf")
       \/ (a[1] = "fin" /\ b[1] = "fin" /\ a[2] < b[2])

\* Parameters are <<seed, k>>: the values the initializer produced (seed)
\* after k optimizer updates.  NoParams stands for "no parameters".
Seeds == 1..NumSeeds
NoParams == <<0, 0>>
FreshParams == {<<s, 0>> : s \in Seeds}
UpdateWeights(p) == <<p[1], p[2] + 1>>

\* The checkpoint directory: the snapshot saver.save wrote under
\* <save_dir>/best_validation (if any) and whether some other file is there.
\* writer = <<fit call, epoch, step>> of the step that wrote the snapshot.
NoSnapshot == [params |-> NoParams, writer |-> <<0, 0, 0>>]
SavePath == "best_validation"
NoPath == "none"

\* os.listdir(self.save_dir) == []
ListdirEmpty(dir) == dir.snapshot = NoSnapshot /\ ~dir.stray

\* ---- inputs -------------------------------------------------------------
\* A flattened image is reduced to one normalized pixel, dark or bright.
Pixels == 0..1
\* A batch has MaxBatch rows.
Images == [1..MaxBatch -> Pixels]
Dtypes == {"float32", "float64"}

\* ---- state --------------------------------------------------------------
VARIABLES
    epochs,          \* self.epochs
    iterations,      \* self.iterations (config.num_steps)
    show_step,       \* self.show_step (config.save_step)
    save_dir,        \* contents of the checkpoint directory
    pc,              \* "idle" or "fit" (inside fit's session)
    calls,           \* number of public calls made so far
    fitId,           \* number of fit calls started
    best_valid_loss, \* fit's local
    valid_loss,      \* fit's local: the last validation loss computed
    epoch,           \* fit's loop variable
    step,            \* fit's loop variable
    sess_params,     \* the parameters held by fit's session
    updates,         \* runs of self.update_weights in this fit call
    train_drawn,     \* batches taken from iterator_train in this fit call
    valid_drawn,     \* batches taken from iterator_valid in this fit call
    valid_inits,     \* runs of iterator_valid.initializer in this fit call
    reports,         \* the report steps of this fit call, in order
    last             \* the most recent public call

vars == <<epochs, iterations, show_step, save_dir, pc, calls, fitId,
          best_valid_loss, valid_loss, epoch, step, sess_params, updates,
          train_drawn, valid_drawn, valid_inits, reports, last>>

config == <<epochs, iterations, show_step>>
fitLocals == <<best_valid_loss, valid_loss, epoch, step, sess_params,
               updates, train_drawn, valid_drawn, valid_inits, reports>>

NoCall == [op |-> "none", dtype |-> "none", img |-> <<>>,
           dir |-> [snapshot |-> NoSnapshot, stray |-> FALSE],
           session |-> FALSE, init |-> "none", path |-> NoPath,
           params |-> NoParams, outcome |-> "none", result |-> <<>>,
           prob |-> <<>>]

\* fit's locals and its session exist only while fit runs; when fit is left
\* they are gone and the variables go back to their placeholder values.
DiscardLocals ==
    /\ best_valid_loss' = NaN
    /\ valid_loss' = NaN
    /\ epoch' = 0
    /\ step' = 0
    /\ sess_params' = NoParams
    /\ updates' = 0
    /\ train_drawn' = 0
    /\ valid_drawn' = 0
    /\ valid_inits' = 0
    /\ reports' = <<>>

\* ---- Trainer.__init__ -----------------------------------------------------
\* The directory is created when missing and otherwise taken as it is.
Init ==
    /\ epochs \in 0..MaxTotalSteps
    /\ iterations \in 0..MaxTotalSteps
    /\ epochs * iterations <= MaxTotalSteps
    /\ show_step \in 0..MaxShowStep
    /\ save_dir \in [snapshot : {NoSnapshot}, stray : BOOLEAN]
    /\ pc = "idle"
    /\ calls = 0
    /\ fitId = 0
    /\ best_valid_loss = NaN
    /\ valid_loss = NaN
    /\ epoch = 0
    /\ step = 0
    /\ sess_params = NoParams
    /\ updates = 0
    /\ train_drawn = 0
    /\ valid_drawn = 0
    /\ valid_inits = 0
    /\ reports = <<>>
    /\ last = NoCall

\* ---- pieces of the code that the actions below use --------------------------
\* best_valid_loss starting at 0.
InitialBestZero == Fin(0)

\* line 170: best_valid_loss = float("inf")
InitialBest == Inf

\* line 175: show_loss = sess.run(self.tf_train_loss) takes one batch from
\* iterator_train before the loop starts.
BatchesBeforeLoop == 1

\* Reporting after every show_step-th step: (step + 1) % self.show_step == 0.
IsReportStepNext(s, k) == (s + 1) % k = 0

\* line 181: step % self.show_step == 0 (show_step # 0)
IsReportStep(s, k) == s % k = 0

\* Saving also when the loss equals the best one.
ShouldSaveOnEqual(vl, best) == LessThanLe(vl, best)

\* line 189: valid_loss < best_valid_loss
ShouldSave(vl, best) == LessThan(vl, best)

\* Restoring only when a snapshot is at save_path.
ChooseInitBySnapshot(dir) == IF dir.snapshot = NoSnapshot THEN "fresh" ELSE "restore"

\* lines 139-142 and 206-209: restore unless os.listdir(save_dir) == [].
ChooseInit(dir) == IF ListdirEmpty(dir) THEN "fresh" ELSE "restore"

\* fit choosing as get_accuracy and predict_prob do.
FitInitRestoring(dir) == ChooseInit(dir)

\* line 174: fit runs tf.global_variables_initializer() without looking at
\* save_dir.
FitInit(dir) == "fresh"

\* saver.restore(sess, save_path): fails when no snapshot is at save_path.
RestoreFails(dir) == dir.snapshot = NoSnapshot

\* The parameters of a session after its initialisation; fresh is what the
\* initializer would produce.
ParamsAfter(init, dir, fresh) ==
    IF init = "fresh" THEN fresh
    ELSE IF init = "restore" /\ ~RestoreFails(dir) THEN dir.snapshot.params
    ELSE NoParams

\* saver.save(sess, save_path): the snapshot replaces the one at save_path.
SaverSave(dir, p, w) == [dir EXCEPT !.snapshot = [params |-> p, writer |-> w]]

\* ---- Trainer.fit ------------------------------------------------------------
\* lines 170-175
FitStart ==
    /\ pc = "idle"
    /\ calls < MaxCalls
    /\ \E fresh \in FreshParams :
        LET init == FitInit(save_dir)
            p == ParamsAfter(init, save_dir, fresh)
            failed == init = "restore" /\ RestoreFails(save_dir)
        IN  /\ last' = [NoCall EXCEPT !.op = "fit", !.dir = save_dir,
                           !.session = TRUE, !.init = init,
                           !.path = IF init = "restore" THEN SavePath ELSE NoPath,
                           !.params = p,
                           !.outcome = IF failed THEN "RestoreError" ELSE "running"]
            /\ pc' = IF failed THEN "idle" ELSE "fit"
            /\ IF failed
               THEN DiscardLocals
               ELSE /\ sess_params' = p
                    /\ best_valid_loss' = InitialBest
                    /\ valid_loss' = NaN
                    /\ epoch' = 0
                    /\ step' = 0
                    /\ updates' = 0
                    /\ train_drawn' = BatchesBeforeLoop
                    /\ valid_drawn' = 0
                    /\ valid_inits' = 1
                    /\ reports' = <<>>
    /\ calls' = calls + 1
    /\ fitId' = fitId + 1
    /\ UNCHANGED <<config, save_dir>>

\* The loop of lines 176-177 has an iteration left.
InLoop == iterations > 0 /\ epoch < epochs

\* lines 178-192: one iteration of the inner loop.
FitStep ==
    /\ pc = "fit"
    /\ InLoop
    /\ IF show_step = 0
       THEN \* the update of line 178 is done, then step % 0 raises
            \* ZeroDivisionError and the session closes
            /\ pc' = "idle"
            /\ last' = [last EXCEPT !.outcome = "ZeroDivisionError"]
            /\ DiscardLocals
            /\ UNCHANGED save_dir
       ELSE /\ pc' = "fit"
            /\ last' = last
            /\ updates' = updates + 1
            /\ train_drawn' = train_drawn + 1
            /\ sess_params' = UpdateWeights(sess_params)
            /\ valid_inits' = valid_inits
            /\ IF step + 1 < iterations
               THEN step' = step + 1 /\ epoch' = epoch
               ELSE step' = 0 /\ epoch' = epoch + 1
            /\ IF IsReportStep(step, show_step)
               THEN \E vl \in LossValues :
                     /\ valid_loss' = vl
                     /\ valid_drawn' = valid_drawn + 1
                     /\ reports' = Append(reports,
                                      [loss |-> vl, params |-> sess_params',
                                       epoch |-> epoch, step |-> step])
                     /\ IF ShouldSave(vl, best_valid_loss)
                        THEN /\ save_dir' = SaverSave(save_dir, sess_params',
                                                      <<fitId, epoch, step>>)
                             /\ best_valid_loss' = vl
                        ELSE UNCHANGED <<save_dir, best_valid_loss>>
               ELSE UNCHANGED <<save_dir, best_valid_loss, valid_loss,
                                valid_drawn, reports>>
    /\ UNCHANGED <<config, calls, fitId>>

\* Both loops are over: the session closes and fit returns.
FitReturn ==
    /\ pc = "fit"
    /\ ~InLoop
    /\ pc' = "idle"
    /\ last' = [last EXCEPT !.outcome = "returned"]
    /\ DiscardLocals
    /\ UNCHANGED <<config, save_dir, calls, fitId>>

\* ---- Trainer.get_accuracy / get_valid_accuracy --------------------------------
\* The value of self.valid_accuracy on the i-th validation batch: the share
\* of right answers, here 0 or 1 (the Model and the data are external).
ValidAccuracy(p, i) == (p[1] + p[2] + i) % 2

RECURSIVE SumAccuracy(_, _)
\* lines 143-145: acc = 0; for _ in range(iterations): acc += sess.run(...)
SumAccuracy(p, n) == IF n = 0 THEN 0 ELSE SumAccuracy(p, n - 1) + ValidAccuracy(p, n)

\* lines 137-146, with the parameters a fresh initialization would give;
\* the result acc / iterations is the pair <<acc, iterations>>.
GetAccuracyWith(dir, n, fresh) ==
    LET init == ChooseInit(dir)
        failed == init = "restore" /\ RestoreFails(dir)
        p == ParamsAfter(init, dir, fresh)
        outcome == IF failed THEN "RestoreError"
                   ELSE IF n = 0 THEN "ZeroDivisionError" ELSE "returned"
    IN  [NoCall EXCEPT !.op = "get_valid_accuracy", !.dir = dir,
                       !.session = TRUE, !.init = init,
                       !.path = IF init = "restore" THEN SavePath ELSE NoPath,
                       !.params = p, !.outcome = outcome,
                       !.result = IF outcome = "returned"
                                  THEN <<SumAccuracy(p, n), n>> ELSE <<>>]

\* The ways a call of get_accuracy can go.
GetAccuracyCalls(dir, n) == {GetAccuracyWith(dir, n, fresh) : fresh \in FreshParams}

\* lines 148-161
GetValidAccuracy ==
    /\ pc = "idle"
    /\ calls < MaxCalls
    /\ \E n \in 0..MaxIterations : \E call \in GetAccuracyCalls(save_dir, n) :
        last' = call
    /\ calls' = calls + 1
    /\ UNCHANGED <<config, save_dir, pc, fitId, fitLocals>>

\* ---- Trainer.predict_prob / predict -------------------------------------------
\* self.tf_prediction for one input row x under parameters p: one score per
\* class, a fixed function of p and x (the Model is external).
Classes == 0..(NumClasses - 1)
Prediction(p, x) == [c \in 1..NumClasses |-> (p[1] * c + p[2] * (c + 1) + x * (c + 2)) % 3]

\* line 204: assert img.dtype == np.float32
DtypeOk(dtype) == dtype = "float32"

\* lines 205-214: the session of predict_prob, with the parameters a fresh
\* initialization would give.
PredictSession(img, dtype, dir, fresh) ==
    LET init == ChooseInit(dir)
        failed == init = "restore" /\ RestoreFails(dir)
        p == ParamsAfter(init, dir, fresh)
    IN  [NoCall EXCEPT !.op = "predict_prob", !.dtype = dtype, !.img = img,
                       !.dir = dir, !.session = TRUE, !.init = init,
                       !.path = IF init = "restore" THEN SavePath ELSE NoPath,
                       !.params = p,
                       !.outcome = IF failed THEN "RestoreError" ELSE "returned",
                       !.result = IF failed THEN <<>>
                                  ELSE [i \in DOMAIN img |-> Prediction(p, img[i])]]

\* predict_prob with the assertion of line 204 moved behind the session.
PredictProbLate(img, dtype, dir) ==
    {LET call == PredictSession(img, dtype, dir, fresh)
     IN  IF call.outcome = "returned" /\ ~DtypeOk(dtype)
         THEN [call EXCEPT !.outcome = "AssertionError", !.result = <<>>]
         ELSE call : fresh \in FreshParams}

\* lines 203-214: the ways a call of predict_prob can go.
PredictProbCalls(img, dtype, dir) ==
    IF ~DtypeOk(dtype)
    THEN {[NoCall EXCEPT !.op = "predict_prob", !.dtype = dtype, !.img = img,
                         !.dir = dir, !.outcome = "AssertionError"]}
    ELSE {PredictSession(img, dtype, dir, fresh) : fresh \in FreshParams}

\* predict_prob saving the parameters of its session.
StoreAfterPredictSaving(dir, call) ==
    IF call.session /\ call.params # NoParams
    THEN SaverSave(dir, call.params, <<0, 0, 0>>) ELSE dir

\* What predict_prob does to the checkpoint directory: nothing.
StoreAfterPredict(dir, call) == dir

PredictProb ==
    /\ pc = "idle"
    /\ calls < MaxCalls
    /\ \E img \in Images, dtype \in Dtypes :
        \E call \in PredictProbCalls(img, dtype, save_dir) :
            /\ last' = call
            /\ save_dir' = StoreAfterPredict(save_dir, call)
    /\ calls' = calls + 1
    /\ UNCHANGED <<config, pc, fitId, fitLocals>>

\* np.argmax returning the last index that holds the maximum.
NpArgmaxLast(row) ==
    CHOOSE c \in Classes :
        /\ \A d \in Classes : row[d + 1] <= row[c + 1]
        /\ \A d \in Classes : d > c => row[d + 1] < row[c + 1]

\* np.argmax of one row: the first index (from 0) holding the row's maximum.
NpArgmax(row) ==
    CHOOSE c \in Classes :
        /\ \A d \in Classes : row[d + 1] <= row[c + 1]
        /\ \A d \in Classes : d < c => row[d + 1] < row[c + 1]

\* astype(np.int32) of an index: the value is kept up to 2^31 - 1 and wraps
\* around above it.
AsInt32(i) == IF i <= 2147483647 THEN i ELSE (i - 2147483647) - 2147483647 - 2

\* lines 225-228; the record keeps what predict_prob returned in prob.
Predict ==
    /\ pc = "idle"
    /\ calls < MaxCalls
    /\ \E img \in Images, dtype \in Dtypes :
        \E call \in PredictProbCalls(img, dtype, save_dir) :
            /\ last' = IF call.outcome = "returned"
                       THEN [call EXCEPT !.op = "predict", !.prob = call.result,
                                 !.result = [i \in DOMAIN call.result |->
                                               AsInt32(NpArgmax(call.result[i]))]]
                       ELSE [call EXCEPT !.op = "predict"]
            /\ save_dir' = StoreAfterPredict(save_dir, call)
    /\ calls' = calls + 1
    /\ UNCHANGED <<config, pc, fitId, fitLocals>>

\* ---- the program ------------------------------------------------------------
Next ==
    \/ FitStart
    \/ FitStep
    \/ FitReturn
    \/ GetValidAccuracy
    \/ PredictProb
    \/ Predict

Spec == Init /\ [][Next]_vars

\* ---- vocabulary of the properties ---------------------------------------------
\* The order of the floats, stated on their values: NaN compares with nothing,
\* +inf lies above every finite value.
IsNumber(a) == a[1] # "nan"
Magnitude(a) == IF a[1] = "inf" THEN MaxLoss + 1 ELSE a[2]
StrictlyBelow(a, b) == IsNumber(a) /\ IsNumber(b) /\ Magnitude(a) < Magnitude(b)
IsFinite(a) == a[1] = "fin"

\* fit has left its loops and is about to return.
AtReturn == pc = "fit" /\ ~InLoop
\* The step fit is about to execute is a report step.
AtReportStep == pc = "fit" /\ InLoop /\ show_step # 0 /\ step % show_step = 0
\* The step being taken writes a snapshot.
SnapshotWritten == save_dir'.snapshot # save_dir.snapshot
\* The snapshot in the directory is the one report step i of this call wrote.
HoldsReport(i) ==
    /\ save_dir.snapshot.writer = <<fitId, reports[i].epoch, reports[i].step>>
    /\ save_dir.snapshot.params = reports[i].params
EvalOps == {"get_valid_accuracy", "predict_prob", "predict"}
CeilDiv(a, b) == (a + b - 1) \div b

\* C1: within a fit call a step writes a snapshot if and only if it is a
\* report step (step mod save_step = 0) whose validation loss is strictly
\* less than the best validation loss seen so far in the call; a non-report
\* step, an equal loss and a larger loss write nothing.
C1_SnapshotIffStrictlyLess ==
    [][pc = "fit" =>
          (SnapshotWritten <=>
              (AtReportStep /\ StrictlyBelow(valid_loss', best_valid_loss)))]_vars

\* A second report step repeated the loss of the first: the first wrote the
\* snapshot, the second left it alone.
C1_Witness ==
    /\ pc = "fit"
    /\ Len(reports) >= 2
    /\ IsFinite(reports[1].loss)
    /\ reports[2].loss = reports[1].loss
    /\ HoldsReport(1)

\* C2 as stated: with epochs >= 1 and num_steps >= 1 and the directory empty
\* when fit starts, the directory is non-empty when fit returns, whatever
\* the validation loss of the first report step.
C2_NonEmptyAfterFit ==
    (AtReturn /\ epochs >= 1 /\ iterations >= 1 /\ ListdirEmpty(last.dir))
        => ~ListdirEmpty(save_dir)

\* C2 amended: with epochs >= 1 and num_steps >= 1 fit runs a first report
\* step, and if its validation loss is finite (neither +inf nor NaN) the
\* directory that was empty when fit started holds a snapshot when fit
\* returns.
C2_NonEmptyAfterFiniteLoss ==
    (AtReturn /\ epochs >= 1 /\ iterations >= 1 /\ ListdirEmpty(last.dir))
        => /\ Len(reports) >= 1
           /\ reports[1].epoch = 0 /\ reports[1].step = 0
           /\ IsFinite(reports[1].loss) =>
                 (~ListdirEmpty(save_dir) /\ save_dir.snapshot # NoSnapshot)

C2_Witness ==
    /\ AtReturn /\ epochs >= 1 /\ iterations >= 1
    /\ ListdirEmpty(last.dir)
    /\ IsFinite(reports[1].loss)
    /\ save_dir.snapshot # NoSnapshot

\* C3 as stated: every session that starts while the directory is non-empty
\* restores the parameters, whichever entry point opened it (fit included).
C3_EverySessionRestores ==
    (last.session /\ ~ListdirEmpty(last.dir)) => last.init = "restore"

\* C3 amended: every session that get_accuracy, get_valid_accuracy,
\* predict_prob or predict opens while the directory is non-empty restores
\* the parameters from the store, in any order of calls; the session of fit
\* always initializes them fresh, also when the directory is non-empty.
C3_EvalSessionsRestore ==
    /\ (last.op \in EvalOps /\ last.session /\ ~ListdirEmpty(last.dir))
          => /\ last.init = "restore"
             /\ last.dir.snapshot # NoSnapshot
                   => last.params = last.dir.snapshot.params
    /\ last.op = "fit"
          => (last.session /\ last.init = "fresh" /\ last.params \in FreshParams)

\* A fit call started on a directory that holds the snapshot of an earlier
\* fit call.
C3_Witness ==
    /\ last.op = "fit"
    /\ last.dir.snapshot # NoSnapshot
    /\ last.init = "fresh"

\* C4: in get_accuracy / get_valid_accuracy and predict_prob / predict the
\* session's choice depends only on the emptiness of the directory at the
\* call: empty means fresh initialization and no restore attempt, any file
\* at all means a restore from <save_dir>/best_validation.
C4_ChoiceByEmptiness ==
    (last.op \in EvalOps /\ last.session) =>
        IF ListdirEmpty(last.dir)
        THEN last.init = "fresh" /\ last.path = NoPath
             /\ last.params \in FreshParams /\ last.outcome # "RestoreError"
        ELSE last.init = "restore" /\ last.path = SavePath
             /\ last.params \notin FreshParams

\* The directory held only a file that is not a snapshot, and predict_prob
\* tried to restore.
C4_Witness ==
    /\ last.op = "predict_prob"
    /\ last.dir.stray /\ last.dir.snapshot = NoSnapshot
    /\ last.init = "restore" /\ last.path = SavePath

\* Report step i has the least validation loss of the call and no earlier
\* report step has the same loss.
EarliestMinimum(i) ==
    /\ \A j \in DOMAIN reports : ~StrictlyBelow(reports[j].loss, reports[i].loss)
    /\ \A j \in DOMAIN reports : j < i => reports[j].loss # reports[i].loss
\* The report steps whose loss is finite.
FiniteReports == {i \in DOMAIN reports : IsFinite(reports[i].loss)}

\* C5 as stated: when fit returns, the store holds the parameters of the
\* report step with the least validation loss of this call (the earliest
\* on ties), not those of an earlier fit call.
C5_StoreHoldsBest ==
    (AtReturn /\ reports # <<>>) =>
        \E i \in DOMAIN reports : EarliestMinimum(i) /\ HoldsReport(i)

\* C5 amended: when fit returns and some report step of the call had a finite
\* validation loss, the store holds the parameters of the report step with
\* the least finite loss (the earliest on ties; NaN and +inf losses never
\* count); when no report step had a finite loss, fit leaves the store as it
\* found it, an earlier call's snapshot included.
C5_StoreHoldsBestFinite ==
    AtReturn =>
        IF FiniteReports = {}
        THEN save_dir = last.dir
        ELSE \E i \in FiniteReports :
                /\ \A j \in FiniteReports : reports[j].loss[2] >= reports[i].loss[2]
                /\ \A j \in FiniteReports :
                      j < i => reports[j].loss[2] > reports[i].loss[2]
                /\ HoldsReport(i)

\* The least loss came second and was repeated by a later report step.
C5_Witness ==
    /\ AtReturn
    /\ Len(reports) >= 3
    /\ reports[1].loss = Fin(1)
    /\ reports[2].loss = Fin(0)
    /\ reports[3].loss = Fin(0)
    /\ HoldsReport(2)

\* C6: best_valid_loss is +inf when a fit call starts, never increases from
\* one step of the call to the next, and changes only at a report step that
\* writes a snapshot, to the validation loss just computed.
C6_BestLossTracker ==
    [][/\ (pc = "idle" /\ pc' = "fit") => best_valid_loss' = Inf
       /\ (pc = "fit" /\ pc' = "fit") =>
             \/ best_valid_loss' = best_valid_loss
             \/ /\ StrictlyBelow(best_valid_loss', best_valid_loss)
                /\ AtReportStep
                /\ SnapshotWritten
                /\ best_valid_loss' = valid_loss']_vars

\* A second fit call whose tracker went from +inf to 1 and then to 0.
C6_Witness ==
    /\ pc = "fit"
    /\ fitId = 2
    /\ Len(reports) = 2
    /\ reports[1].loss = Fin(1)
    /\ best_valid_loss = Fin(0)

\* pred holds, for every row of probs, the lowest index of the row's largest
\* probability.
IsRowArgmax(pred, probs) ==
    /\ DOMAIN pred = DOMAIN probs
    /\ \A i \in DOMAIN probs :
          /\ pred[i] \in Classes
          /\ \A d \in Classes : probs[i][d + 1] <= probs[i][pred[i] + 1]
          /\ \A d \in Classes : d < pred[i] => probs[i][d + 1] < probs[i][pred[i] + 1]

\* What a predict_prob call on the input and the store state of the last call
\* can return.
ProbsOnSameStore == PredictProbCalls(last.img, last.dtype, last.dir)

\* C7 as stated: for any float32 batch and any state of the store, the result
\* of predict(img) is the row-wise argmax of predict_prob(img) evaluated
\* against the same store state.
C7_PredictIsArgmaxOfPredictProb ==
    (last.op = "predict" /\ last.outcome = "returned") =>
        \A call \in ProbsOnSameStore :
            call.outcome = "returned" /\ IsRowArgmax(last.result, call.result)

\* C7 amended: predict(img) is the row-wise argmax (lowest index on ties) of
\* the probabilities its own predict_prob(img) call returned; it is the
\* row-wise argmax of a separate predict_prob(img) call on the same store
\* state when the store is non-empty, where both restore the same snapshot.
\* On an empty store every call initializes its parameters anew, and two
\* calls need not agree.
C7_PredictIsArgmaxOfOwnProb ==
    (last.op = "predict" /\ last.outcome = "returned") =>
        /\ IsRowArgmax(last.result, last.prob)
        /\ Len(last.result) = Len(last.img)
        /\ ~ListdirEmpty(last.dir) =>
              \A call \in ProbsOnSameStore :
                  call.outcome = "returned" /\ IsRowArgmax(last.result, call.result)

\* predict on a restored snapshot, for a batch of two rows one of which has
\* its largest probability at more than one index.
C7_Witness ==
    /\ last.op = "predict" /\ last.outcome = "returned"
    /\ last.init = "restore"
    /\ Len(last.img) = 2
    /\ \E i \in DOMAIN last.prob : \E c, d \in Classes :
          /\ c < d
          /\ last.prob[i][c + 1] = last.prob[i][d + 1]
          /\ last.result[i] = c

\* C8: predict_prob and predict reject an input whose dtype is not float32:
\* the call fails on the assertion before a session is opened and before any
\* initialization or restore of parameters, and the store is unchanged.
C8_RejectsOtherDtypes ==
    (last.op \in {"predict_prob", "predict"} /\ last.dtype # "float32") =>
        /\ last.outcome = "AssertionError"
        /\ ~last.session
        /\ last.init = "none" /\ last.path = NoPath /\ last.params = NoParams
        /\ last.result = <<>>
        /\ save_dir = last.dir

\* predict was given a float64 batch while the store held a snapshot.
C8_Witness ==
    /\ last.op = "predict"
    /\ last.dtype = "float64"
    /\ last.outcome = "AssertionError"
    /\ last.dir.snapshot # NoSnapshot

\* C9: get_accuracy, get_valid_accuracy, predict_prob and predict leave the
\* contents of the store as they are; only a step of fit changes them.
C9_OnlyFitWrites ==
    [][/\ (calls' # calls /\ last'.op \in EvalOps) => save_dir' = save_dir
       /\ save_dir' # save_dir => (pc = "fit" /\ last.op = "fit")]_vars

\* After a fit call, a predict_prob call restored the snapshot fit wrote, and
\* the store is as that call found it.
C9_Witness ==
    /\ calls = 2
    /\ last.op = "predict_prob" /\ last.outcome = "returned"
    /\ last.init = "restore"
    /\ save_dir = last.dir

\* C10: when fit returns it has run epochs * num_steps optimizer updates,
\* every training batch it took was taken by one of them, it has computed
\* the validation loss once per report step, epochs * ceil(num_steps /
\* save_step) times in all, and it has initialized the validation iterator
\* once.
C10_FitCounts ==
    (AtReturn /\ show_step >= 1) =>
        /\ updates = epochs * iterations
        /\ train_drawn = updates
        /\ valid_drawn = epochs * CeilDiv(iterations, show_step)
        /\ valid_drawn = Len(reports)
        /\ valid_inits = 1

====
